---------------------------- MODULE Spec2Model ----------------------------
(***************************************************************************)
(* Transaction lifecycle and reconciliation of the PayNecta STK-push       *)
(* backends.  The repository holds four server programs, two per file:     *)
(*                                                                         *)
(*   srvPay  src/server.js 1-326          /pay + status poller, /callback, *)
(*                                        cron sweeper, receipts.json      *)
(*   srvApi  src/server.js 328-630        /api/payment/initialize,         *)
(*                                        /api/webhook/mpesa, in-memory    *)
(*   p0Pay   src/unnamed/part_000 1-317   /pay, /paynecta/webhook, cron    *)
(*   p0Api   src/unnamed/part_000 319-723 /api/payment/initialize,         *)
(*                                        /api/webhook/mpesa, in-memory    *)
(*                                                                         *)
(* A behaviour is a run of one of them (prog, fixed by Init).  JavaScript  *)
(* scalars are strings; UNDEF and NULL stand for undefined and null.       *)
(* Numbers that arrive in JSON bodies are kept as their decimal text.      *)
(* Fields that no handler ever reads back to take a decision (loan_amount, *)
(* status_note, created_at, TransactionDate, the raw payload kept in a log *)
(* entry) are left out of the records.                                     *)
(***************************************************************************)
EXTENDS Integers, Sequences, FiniteSets, TLC

VARIABLES prog, now, receipts, pollers, gwSeq, transactions, calls, last

vars == <<prog, now, receipts, pollers, gwSeq, transactions, calls, last>>

Programs == {"srvPay", "srvApi", "p0Pay", "p0Api"}

(***************************************************************************)
(* Bounds of the model.                                                    *)
(***************************************************************************)
MaxMs == 1        \* single milliseconds the clock may advance
MaxDwells == 1    \* whole dwell times (24h) the clock may advance
MaxPays == 1      \* initiations the gateway accepts in one run
MaxRecs == 1      \* receipts the receipts store may hold
MaxTx == 2        \* records the transactions store may hold
MaxInflight == 2  \* status requests of one poller in flight at once
MaxHooks == 2     \* webhooks /api/webhook/mpesa processes in one run

(***************************************************************************)
(* JavaScript values and string functions.                                 *)
(***************************************************************************)
UNDEF == "<undefined>"
NULL == "<null>"

Truthy(v) == v \notin {UNDEF, NULL, ""}

\* a || b
Or(a, b) == IF Truthy(a) THEN a ELSE b

UpperAlpha == "ABCDEFGHIJKLMNOPQRSTUVWXYZ"
LowerAlpha == "abcdefghijklmnopqrstuvwxyz"
Digits == "0123456789"

CharAt(s, i) == SubSeq(s, i, i)

IndexIn(alphabet, c) ==
  IF \E i \in 1..Len(alphabet) : CharAt(alphabet, i) = c
  THEN CHOOSE i \in 1..Len(alphabet) : CharAt(alphabet, i) = c
  ELSE 0

LowerChar(c) ==
  IF IndexIn(UpperAlpha, c) > 0 THEN CharAt(LowerAlpha, IndexIn(UpperAlpha, c)) ELSE c

RECURSIVE toLowerCase(_)
toLowerCase(s) ==
  IF s = "" THEN "" ELSE LowerChar(CharAt(s, 1)) \o toLowerCase(SubSeq(s, 2, Len(s)))

\* the status texts the requests below carry, lowered once
StatusTexts ==
  {"completed", "COMPLETED", "PROCESSING", "processing", "failed", "FAILED",
   "cancelled", "pending", "reversed", "loan_released"}
LowerTable == [s \in StatusTexts |-> toLowerCase(s)]
Lower(s) == IF s \in StatusTexts THEN LowerTable[s] ELSE toLowerCase(s)

\* data.status?.toLowerCase()
OptLower(s) == IF s \in {UNDEF, NULL} THEN UNDEF ELSE Lower(s)

includes(s, sub) ==
  \E i \in 1..(Len(s) - Len(sub) + 1) : SubSeq(s, i, i + Len(sub) - 1) = sub

startsWith(s, p) == Len(s) >= Len(p) /\ SubSeq(s, 1, Len(p)) = p

\* phone.replace(/\D/g, "")
RECURSIVE StripNonDigits(_)
StripNonDigits(s) ==
  IF s = "" THEN ""
  ELSE (IF IndexIn(Digits, CharAt(s, 1)) > 0 THEN CharAt(s, 1) ELSE "")
         \o StripNonDigits(SubSeq(s, 2, Len(s)))

\* A JSON number is written as its text: an optional sign, digits and at most
\* one decimal.  Number(text) is its value counted in tenths, so that 0.5 and
\* -5 are told from 0 and 1 (One is the number 1); NaN, for undefined, is -0.1,
\* a value no request below carries.
RECURSIVE DigitsValue(_)
DigitsValue(s) ==
  IF s = "" THEN 0
  ELSE 10 * DigitsValue(SubSeq(s, 1, Len(s) - 1)) + (IndexIn(Digits, CharAt(s, Len(s))) - 1)

One == 10

Tenths(s) ==
  LET neg == Len(s) > 1 /\ CharAt(s, 1) = "-"
      body == IF neg THEN SubSeq(s, 2, Len(s)) ELSE s
      frac == Len(body) > 2 /\ CharAt(body, Len(body) - 1) = "."
      abs == IF frac
             THEN One * DigitsValue(SubSeq(body, 1, Len(body) - 2))
                    + DigitsValue(SubSeq(body, Len(body), Len(body)))
             ELSE One * DigitsValue(body)
  IN IF neg THEN 0 - abs ELSE abs

NaN == 0 - 1
NumberTexts == {"0", "100", "0.5", "-5"}
NumberTable == [v \in NumberTexts |-> Tenths(v)]
Number(v) ==
  IF v = UNDEF THEN NaN ELSE IF v = NULL THEN 0
  ELSE IF v \in NumberTexts THEN NumberTable[v] ELSE Tenths(v)

\* !amount, for a JSON number
NumFalsy(v) == ~Truthy(v) \/ Number(v) = 0

\* Math.round(amount), written back as a JSON number: halves round up
MathRound(v) == ToString((Number(v) + 5) \div One)

\* Number(a) === Number(b): NaN equals nothing
NumEq(a, b) == Number(a) # NaN /\ Number(b) # NaN /\ Number(a) = Number(b)

\* variant: any ten digits with a leading 0 are taken for a national number
formatPhoneAnyZero(phone) ==
  LET digits == StripNonDigits(phone) IN
  IF Len(digits) = 9 /\ startsWith(digits, "7") THEN "254" \o digits
  ELSE IF Len(digits) = 10 /\ startsWith(digits, "0") THEN "254" \o SubSeq(digits, 2, Len(digits))
  ELSE IF Len(digits) = 12 /\ startsWith(digits, "254") THEN digits
  ELSE NULL

\* variant: nine digits are completed to the national form
formatPhoneNational(phone) ==
  LET digits == StripNonDigits(phone) IN
  IF Len(digits) = 9 /\ startsWith(digits, "7") THEN "0" \o digits
  ELSE IF Len(digits) = 10 /\ startsWith(digits, "07") THEN "254" \o SubSeq(digits, 2, Len(digits))
  ELSE IF Len(digits) = 12 /\ startsWith(digits, "254") THEN digits
  ELSE NULL

formatPhone(phone) ==
  LET digits == StripNonDigits(phone) IN
  IF Len(digits) = 9 /\ startsWith(digits, "7") THEN "254" \o digits
  ELSE IF Len(digits) = 10 /\ startsWith(digits, "07") THEN "254" \o SubSeq(digits, 2, Len(digits))
  ELSE IF Len(digits) = 12 /\ startsWith(digits, "254") THEN digits
  ELSE NULL

(***************************************************************************)
(* Time.  now is Date.now() in milliseconds; timestamps are stored with    *)
(* millisecond precision (toISOString) and read back with getTime().       *)
(***************************************************************************)
DwellMs == 24 * 60 * 60 * 1000

(***************************************************************************)
(* The receipts store of the /pay programs: reference key -> receipt.      *)
(* writeReceipts/readReceipts round-trip the whole object through JSON,    *)
(* which drops every property whose value is undefined: an absent property *)
(* and an undefined one are both UNDEF here.                               *)
(***************************************************************************)
Put(store, k, v) == [x \in DOMAIN store \cup {k} |-> IF x = k THEN v ELSE store[x]]

NoReceipt ==
  [reference |-> UNDEF, transaction_id |-> UNDEF, transaction_code |-> UNDEF,
   amount |-> UNDEF, phone |-> UNDEF, customer_name |-> UNDEF,
   status |-> UNDEF, timestamp |-> 0]

\* receipts[ref] || {}
ReceiptOrEmpty(store, key) == IF key \in DOMAIN store THEN store[key] ELSE NoReceipt

\* the property name receipts[ref] uses for ref
KeyOf(ref) == IF ref = UNDEF THEN "undefined" ELSE IF ref = NULL THEN "null" ELSE ref

OrderRef(t) == "ORDER-" \o ToString(t)

\* the transaction reference the gateway assigns to its n-th accepted push
GatewayRef(n) == "CHK" \o ToString(n)

HasRoom(store, key) == key \in DOMAIN store \/ Cardinality(DOMAIN store) < MaxRecs

PayPhones == {"0712345678", "123"}
PayAmounts == {"100", "0", "0.5", "-5"}

\* formatPhone over the phones the requests below carry, computed once
PhoneTable == [phone \in PayPhones |-> formatPhone(phone)]
Formatted(phone) == IF phone \in PayPhones THEN PhoneTable[phone] ELSE formatPhone(phone)

PayValid(phone, amount) ==
  /\ Formatted(phone) # NULL
  /\ ~NumFalsy(amount)
  /\ Number(amount) >= One

PendingReceipt(reference, txid, phone, amount, t) ==
  [reference |-> reference, transaction_id |-> Or(txid, NULL), transaction_code |-> NULL,
   amount |-> MathRound(amount), phone |-> Formatted(phone), customer_name |-> "N/A",
   status |-> "pending", timestamp |-> t]

ErrorReceipt(reference, phone, amount, t) ==
  [reference |-> reference, transaction_id |-> NULL, transaction_code |-> NULL,
   amount |-> IF NumFalsy(amount) THEN NULL ELSE MathRound(amount),
   phone |-> Formatted(phone), customer_name |-> "N/A",
   status |-> "error", timestamp |-> t]

PayPrograms == {"srvPay", "p0Pay"}

\* POST /pay without a phone, or with one that is not a string: formatPhone
\* throws inside try, and again inside catch; the handler's promise rejects and
\* no response is written (code 0)
PayThrows(phone, amount) ==
  /\ prog \in PayPrograms
  /\ phone = UNDEF
  /\ last' = [op |-> "pay", code |-> 0]
  /\ UNCHANGED <<prog, now, receipts, pollers, gwSeq, transactions, calls>>

\* POST /pay, validation fails: 400, nothing stored
PayRejected(phone, amount) ==
  /\ prog \in PayPrograms
  /\ phone # UNDEF
  /\ ~PayValid(phone, amount)
  /\ last' = [op |-> "pay", code |-> 400]
  /\ UNCHANGED <<prog, now, receipts, pollers, gwSeq, transactions, calls>>

\* POST /pay, the gateway answers success: true
PayAccepted(phone, amount) ==
  /\ prog \in PayPrograms
  /\ PayValid(phone, amount)
  /\ gwSeq < MaxPays
  /\ HasRoom(receipts, OrderRef(now))
  /\ receipts' = Put(receipts, OrderRef(now),
                     PendingReceipt(OrderRef(now), GatewayRef(gwSeq + 1), phone, amount, now))
  /\ gwSeq' = gwSeq + 1
  /\ pollers' = IF prog = "srvPay"
                THEN Put(pollers, gwSeq + 1,
                         [reference |-> OrderRef(now), transaction_reference |-> GatewayRef(gwSeq + 1),
                          active |-> TRUE, inflight |-> 0])
                ELSE pollers
  /\ last' = [op |-> "pay", code |-> 200]
  /\ UNCHANGED <<prog, now, transactions, calls>>

\* POST /pay, the gateway call throws or answers success: false
PayFailed(phone, amount) ==
  /\ prog \in PayPrograms
  /\ PayValid(phone, amount)
  /\ HasRoom(receipts, OrderRef(now))
  /\ receipts' = Put(receipts, OrderRef(now), ErrorReceipt(OrderRef(now), phone, amount, now))
  /\ last' = [op |-> "pay", code |-> 500]
  /\ UNCHANGED <<prog, now, pollers, gwSeq, transactions, calls>>

(***************************************************************************)
(* The status poller of srvPay: setInterval callback, one gateway request  *)
(* awaited per tick.                                                       *)
(***************************************************************************)
\* variant: only "completed" confirms
PollConfirmedCompletedOnly(payStatus) == payStatus = "completed"

PollConfirmed(payStatus) == payStatus = "completed" \/ payStatus = "processing"
PollFailed(payStatus) == payStatus = "failed" \/ payStatus = "cancelled"

\* what one answered tick writes into the receipt
PollUpdate(r, resp, t) ==
  LET payStatus == OptLower(resp.status) IN
  IF PollConfirmed(payStatus)
  THEN [r EXCEPT !.status = "processing",
                 !.transaction_code = Or(resp.mpesa_receipt_number, NULL),
                 !.timestamp = t]
  ELSE IF PollFailed(payStatus)
  THEN [r EXCEPT !.status = "cancelled", !.timestamp = t]
  ELSE r

PollStatuses == {UNDEF, "completed", "processing", "PROCESSING", "failed", "cancelled", "pending"}
PollResponses ==
  [status : PollStatuses, mpesa_receipt_number : {UNDEF, "R123"}]

\* the interval fires: the status request goes out
TickFire(p) ==
  /\ prog = "srvPay"
  /\ p \in DOMAIN pollers
  /\ pollers[p].active
  /\ pollers[p].inflight < MaxInflight
  /\ pollers' = [pollers EXCEPT ![p].inflight = @ + 1]
  /\ UNCHANGED <<prog, now, receipts, gwSeq, transactions, calls, last>>

\* the status request is answered
TickDone(p, resp) ==
  /\ prog = "srvPay"
  /\ p \in DOMAIN pollers
  /\ pollers[p].inflight > 0
  /\ LET ref == pollers[p].reference
         payStatus == OptLower(resp.status)
         stop == ref \in DOMAIN receipts /\ (PollConfirmed(payStatus) \/ PollFailed(payStatus))
     IN /\ receipts' = IF ref \in DOMAIN receipts
                       THEN [receipts EXCEPT ![ref] = PollUpdate(@, resp, now)]
                       ELSE receipts
        /\ pollers' = [pollers EXCEPT ![p].inflight = @ - 1,
                                      ![p].active = IF stop THEN FALSE ELSE @]
        /\ last' = [op |-> "poll", code |-> 0]
  /\ UNCHANGED <<prog, now, gwSeq, transactions, calls>>

\* variant: a failed status request cancels the timer
TickErrorCancels(p) ==
  /\ prog = "srvPay"
  /\ p \in DOMAIN pollers
  /\ pollers[p].inflight > 0
  /\ pollers' = [pollers EXCEPT ![p].inflight = @ - 1, ![p].active = FALSE]
  /\ last' = [op |-> "pollError", code |-> 0]
  /\ UNCHANGED <<prog, now, receipts, gwSeq, transactions, calls>>

\* the status request throws: logged, nothing written
TickError(p) ==
  /\ prog = "srvPay"
  /\ p \in DOMAIN pollers
  /\ pollers[p].inflight > 0
  /\ pollers' = [pollers EXCEPT ![p].inflight = @ - 1]
  /\ last' = [op |-> "pollError", code |-> 0]
  /\ UNCHANGED <<prog, now, receipts, gwSeq, transactions, calls>>

(***************************************************************************)
(* POST /callback of srvPay.                                               *)
(***************************************************************************)
\* [first, middle, last].filter(Boolean).join(" ")
RECURSIVE JoinTruthy(_)
JoinTruthy(parts) ==
  IF parts = <<>> THEN ""
  ELSE LET rest == JoinTruthy(Tail(parts)) IN
       IF ~Truthy(Head(parts)) THEN rest
       ELSE IF rest = "" THEN Head(parts)
       ELSE Head(parts) \o " " \o rest

CallbackName(data, existing) ==
  Or(data.name,
     Or(JoinTruthy(<<data.first_name, data.middle_name, data.last_name>>),
        Or(existing.customer_name, "N/A")))

\* the receipt /callback stores under receipts[ref]
CallbackUpdate(existing, data, t) ==
  IF OptLower(data.status) = "completed"
  THEN [existing EXCEPT !.reference = data.external_reference,
                        !.transaction_code = Or(data.mpesa_receipt_number, NULL),
                        !.status = "processing",
                        !.customer_name = CallbackName(data, existing),
                        !.timestamp = t]
  ELSE [existing EXCEPT !.reference = data.external_reference,
                        !.status = "cancelled",
                        !.timestamp = t]

CallbackStatuses == {UNDEF, "completed", "COMPLETED", "processing", "failed"}
CallbackNames ==
  { [name |-> UNDEF, first_name |-> UNDEF, middle_name |-> UNDEF, last_name |-> UNDEF],
    [name |-> "JANE DOE", first_name |-> UNDEF, middle_name |-> UNDEF, last_name |-> UNDEF],
    [name |-> UNDEF, first_name |-> "JANE", middle_name |-> UNDEF, last_name |-> "DOE"] }
CallbackRefs == DOMAIN receipts \cup {UNDEF, "ORDER-X"}

CallbackPayload(ref, status, receipt, names) ==
  [external_reference |-> ref, status |-> status, mpesa_receipt_number |-> receipt,
   name |-> names.name, first_name |-> names.first_name,
   middle_name |-> names.middle_name, last_name |-> names.last_name]

Callback(data) ==
  /\ prog = "srvPay"
  /\ HasRoom(receipts, KeyOf(data.external_reference))
  /\ LET key == KeyOf(data.external_reference) IN
     /\ receipts' = Put(receipts, key, CallbackUpdate(ReceiptOrEmpty(receipts, key), data, now))
     /\ last' = [op |-> "callback", code |-> 200]
  /\ UNCHANGED <<prog, now, pollers, gwSeq, transactions, calls>>

(***************************************************************************)
(* POST /paynecta/webhook of p0Pay.                                        *)
(***************************************************************************)
\* Object.values(receipts).find(r => r.transaction_id === ref): the keys of
\* the matching receipts (at most one: the gateway's references are distinct)
FindByTransactionId(store, ref) ==
  {k \in DOMAIN store : ref # UNDEF /\ store[k].transaction_id = ref}

PaynectaUpdate(existing, data, t) ==
  LET coded == [existing EXCEPT !.transaction_code =
                                   Or(data.mpesa_receipt, existing.transaction_code)]
  IN IF data.status = "completed" \/ data.success = "true"
     THEN [coded EXCEPT !.status = "processing", !.timestamp = t]
     ELSE [coded EXCEPT !.status = "cancelled", !.timestamp = t]

PaynectaStatuses == {UNDEF, "completed", "failed"}
PaynectaRefs == {UNDEF, "CHK1", "CHK9"}
PaynectaPayloads ==
  [transaction_reference : PaynectaRefs, status : PaynectaStatuses,
   success : {UNDEF, "true", "false"}, mpesa_receipt : {UNDEF, "R123"}]

\* the configured credentials (stand-ins for the two string constants)
PAYNECTA_EMAIL == "owner@example.com"
PAYNECTA_API_KEY == "hmp_configured_key"

\* req.headers["x-api-key"] and req.headers["x-user-email"]
PaynectaHeaders ==
  [signature : {UNDEF, PAYNECTA_API_KEY, "hmp_other_key"},
   email : {UNDEF, PAYNECTA_EMAIL, "other@example.com"}]

\* variant: only the key is compared
AuthorizedKeyOnly(headers) == headers.signature = PAYNECTA_API_KEY

\* the negation of: signature !== PAYNECTA_API_KEY || email !== PAYNECTA_EMAIL
Authorized(headers) ==
  ~(headers.signature # PAYNECTA_API_KEY \/ headers.email # PAYNECTA_EMAIL)

\* the x-api-key / x-user-email headers do not both match
PaynectaUnauthorized ==
  /\ prog = "p0Pay"
  /\ last' = [op |-> "unauthorized", code |-> 401]
  /\ UNCHANGED <<prog, now, receipts, pollers, gwSeq, transactions, calls>>

PaynectaUnknown(data) ==
  /\ prog = "p0Pay"
  /\ FindByTransactionId(receipts, data.transaction_reference) = {}
  /\ last' = [op |-> "webhook", code |-> 404]
  /\ UNCHANGED <<prog, now, receipts, pollers, gwSeq, transactions, calls>>

PaynectaWebhook(data) ==
  /\ prog = "p0Pay"
  /\ \E k \in FindByTransactionId(receipts, data.transaction_reference) :
       /\ receipts' = Put(receipts, KeyOf(receipts[k].reference),
                          PaynectaUpdate(receipts[k], data, now))
       /\ last' = [op |-> "webhook", code |-> 200]
  /\ UNCHANGED <<prog, now, pollers, gwSeq, transactions, calls>>

\* POST /paynecta/webhook with its headers and its body
PaynectaPost(headers, data) ==
  \/ ~Authorized(headers) /\ PaynectaUnauthorized
  \/ Authorized(headers) /\ PaynectaUnknown(data)
  \/ Authorized(headers) /\ PaynectaWebhook(data)

(***************************************************************************)
(* The cron sweeper of both /pay programs, and the clock.                  *)
(***************************************************************************)
ReleaseDue(r, t) == r.status = "processing" /\ t >= r.timestamp + DwellMs

SweepReceipt(r, t) == IF ReleaseDue(r, t) THEN [r EXCEPT !.status = "loan_released"] ELSE r

Cron ==
  /\ prog \in PayPrograms
  /\ receipts' = [k \in DOMAIN receipts |-> SweepReceipt(receipts[k], now)]
  /\ last' = [op |-> "cron", code |-> 0]
  /\ UNCHANGED <<prog, now, pollers, gwSeq, transactions, calls>>

AdvanceMs ==
  /\ prog \in PayPrograms
  /\ now % DwellMs < MaxMs
  /\ now' = now + 1
  /\ UNCHANGED <<prog, receipts, pollers, gwSeq, transactions, calls, last>>

AdvanceDwell ==
  /\ prog \in PayPrograms
  /\ now \div DwellMs < MaxDwells
  /\ now' = now + DwellMs
  /\ UNCHANGED <<prog, receipts, pollers, gwSeq, transactions, calls, last>>


(***************************************************************************)
(* The in-memory store of the /api programs.  transactions holds the       *)
(* records in insertion order, the order Object.values() walks them in.    *)
(* A reference is PC-<Date.now()>-<six random base-36 digits>; the model   *)
(* takes the random part as never repeating and writes PC-<n> for the n-th *)
(* record created.                                                         *)
(***************************************************************************)
ApiPrograms == {"srvApi", "p0Api"}

TxRef(n) == "PC-" \o ToString(n)

\* the gateway's second identifier for its n-th accepted push
RemoteRef(n) == "PN" \o ToString(n)

\* flat holds the properties "mpesa.CheckoutRequestID",
\* "mpesa.remote_transaction_reference" and "mpesa.error_message" that
\* p0Api's Object.assign creates on the record itself
createTransactionEntry(n, mobile_number, amount, mpesaCheckoutRequestID) ==
  [transaction_reference |-> TxRef(n),
   amount |-> amount,
   mobile_number |-> mobile_number,
   status |-> "initialized",
   mpesa |-> [CheckoutRequestID |-> IF mpesaCheckoutRequestID = UNDEF THEN NULL
                                     ELSE mpesaCheckoutRequestID,
              MpesaReceiptNumber |-> NULL,
              TransactionCode |-> NULL,
              PaymentName |-> NULL,
              error_code |-> NULL,
              error_message |-> NULL,
              remote_transaction_reference |-> UNDEF],
   flat |-> [CheckoutRequestID |-> UNDEF, remote_transaction_reference |-> UNDEF,
             error_message |-> UNDEF],
   logs |-> <<>>]

MPESA_ERROR_MAP(program, code) ==
  CASE code = "INSUFFICIENT_FUNDS" -> "Insufficient funds in customer account."
    [] code = "USER_CANCELLED" ->
         IF program = "srvApi" THEN "Customer cancelled the transaction on their phone."
         ELSE "Customer cancelled the transaction on the phone."
    [] code = "SYSTEM_BUSY" ->
         IF program = "srvApi" THEN "M-Pesa system busy - please try again later."
         ELSE "M-Pesa system busy - try again later."
    [] code = "TIMED_OUT" ->
         IF program = "srvApi" THEN "Transaction timed out - no response from customer."
         ELSE "Transaction timed out (no response from customer)."
    [] code = "DUPLICATE_REQUEST" -> "Duplicate checkout request."
    [] code = "INVALID_PHONE_NUMBER" ->
         IF program = "srvApi" THEN "Invalid or unsupported Safaricom number."
         ELSE "The phone number is invalid or not Safaricom."
    [] code = "RESOURCES_NOT_FOUND" -> "Requested resource not found."
    [] code = "UNKNOWN_ERROR" -> "Unknown error occurred."
    [] OTHER -> UNDEF

mapMpesaErrorOf(program, codeOrMessage) ==
  IF ~Truthy(codeOrMessage) THEN NULL
  ELSE IF Truthy(MPESA_ERROR_MAP(program, codeOrMessage)) THEN MPESA_ERROR_MAP(program, codeOrMessage)
  ELSE LET lower == toLowerCase(codeOrMessage) IN
       IF includes(lower, "insufficient") THEN MPESA_ERROR_MAP(program, "INSUFFICIENT_FUNDS")
       ELSE IF includes(lower, "cancel") THEN MPESA_ERROR_MAP(program, "USER_CANCELLED")
       ELSE IF includes(lower, "timeout") \/ (program = "p0Api" /\ includes(lower, "timed out"))
            THEN MPESA_ERROR_MAP(program, "TIMED_OUT")
       ELSE MPESA_ERROR_MAP(program, "UNKNOWN_ERROR")

\* the error codes the webhooks below carry, mapped once per program
ErrorCodes == {"INSUFFICIENT_FUNDS", "TIMEOUT", "E999"}
ErrorTable == [program \in ApiPrograms, code \in ErrorCodes |-> mapMpesaErrorOf(program, code)]
mapMpesaError(codeOrMessage) ==
  IF codeOrMessage \in ErrorCodes THEN ErrorTable[prog, codeOrMessage]
  ELSE mapMpesaErrorOf(prog, codeOrMessage)

\* /^(2547|07|01)\d{8}$/.test(mobile_number)
AllDigits(s) == \A i \in 1..Len(s) : IndexIn(Digits, CharAt(s, i)) > 0
MsisdnOk(s) ==
  /\ AllDigits(s)
  /\ \/ startsWith(s, "2547") /\ Len(s) = 12
     \/ startsWith(s, "07") /\ Len(s) = 10
     \/ startsWith(s, "01") /\ Len(s) = 10

InitPhones == {"0712345678", "123"}
InitAmounts == {"100", "0", "0.5"}

MsisdnTable == [s \in InitPhones |-> MsisdnOk(s)]
MsisdnValid(s) == IF s \in InitPhones THEN MsisdnTable[s] ELSE MsisdnOk(s)

InitValid(mobile_number, amount) ==
  Truthy(mobile_number) /\ ~NumFalsy(amount) /\ MsisdnValid(mobile_number)

\* POST /api/payment/initialize, validation fails: 400, nothing stored
InitializeRejected(mobile_number, amount) ==
  /\ prog \in ApiPrograms
  /\ ~InitValid(mobile_number, amount)
  /\ last' = [op |-> "initialize", code |-> 400]
  /\ UNCHANGED <<prog, now, receipts, pollers, gwSeq, transactions, calls>>

\* POST /api/payment/initialize up to its await: the record is created and the
\* gateway request is out
InitializeStart(mobile_number, amount) ==
  /\ prog \in ApiPrograms
  /\ InitValid(mobile_number, amount)
  /\ Len(transactions) < MaxTx
  /\ transactions' = Append(transactions,
                            createTransactionEntry(Len(transactions) + 1, mobile_number, amount, UNDEF))
  /\ calls' = calls \cup {Len(transactions) + 1}
  /\ UNCHANGED <<prog, now, receipts, pollers, gwSeq, last>>

GatewayData(n) == [CheckoutRequestID |-> GatewayRef(n), transaction_reference |-> RemoteRef(n)]
EmptyData == [CheckoutRequestID |-> UNDEF, transaction_reference |-> UNDEF]

\* the patch the handler applies when the gateway request resolves; tx is the
\* stored object itself, so tx.mpesa and tx.logs are read at this moment
InitializedPatch(tx, remoteData) ==
  IF prog = "srvApi"
  THEN [tx EXCEPT !.status = "pending",
                  !.mpesa = [tx.mpesa EXCEPT
                               !.CheckoutRequestID = remoteData.CheckoutRequestID,
                               !.remote_transaction_reference = remoteData.transaction_reference],
                  !.logs = Append(tx.logs, "Initialized STK Push")]
  ELSE [tx EXCEPT !.status = "pending",
                  !.flat = [tx.flat EXCEPT
                              !.CheckoutRequestID = Or(remoteData.CheckoutRequestID, NULL),
                              !.remote_transaction_reference = Or(remoteData.transaction_reference, NULL)],
                  !.logs = Append(tx.logs, "Initialized STK Push")]

InitFailedPatch(tx, errorMsg) ==
  IF prog = "srvApi"
  THEN [tx EXCEPT !.status = "error",
                  !.mpesa = [tx.mpesa EXCEPT !.error_message = errorMsg],
                  !.logs = Append(tx.logs, "Initialization failed")]
  ELSE [tx EXCEPT !.status = "error",
                  !.flat = [tx.flat EXCEPT !.error_message = errorMsg],
                  !.logs = Append(tx.logs, "Initialization failed")]

\* the gateway answers 2xx
InitializeAccepted(i, full) ==
  /\ prog \in ApiPrograms
  /\ i \in calls
  /\ gwSeq < MaxPays
  /\ transactions' = [transactions EXCEPT
                        ![i] = InitializedPatch(@, IF full THEN GatewayData(gwSeq + 1) ELSE EmptyData)]
  /\ gwSeq' = gwSeq + 1
  /\ calls' = calls \ {i}
  /\ last' = [op |-> "initialize", code |-> 200]
  /\ UNCHANGED <<prog, now, receipts, pollers>>

\* the gateway request throws (non-2xx, transport error, timeout)
InitializeFailed(i) ==
  /\ prog \in ApiPrograms
  /\ i \in calls
  /\ transactions' = [transactions EXCEPT ![i] = InitFailedPatch(@, "Gateway unavailable")]
  /\ calls' = calls \ {i}
  /\ last' = [op |-> "initialize", code |-> 500]
  /\ UNCHANGED <<prog, now, receipts, pollers, gwSeq>>


(***************************************************************************)
(* POST /api/webhook/mpesa.                                                *)
(***************************************************************************)
NoMpesa ==
  [present |-> FALSE, PhoneNumber |-> UNDEF, Amount |-> UNDEF, MpesaReceiptNumber |-> UNDEF,
   TransactionCode |-> UNDEF, PaymentName |-> UNDEF, error_code |-> UNDEF,
   error_message |-> UNDEF, ResultDesc |-> UNDEF, Result |-> UNDEF]

\* find() over the records in insertion order: the first of the indices that
\* satisfy the test; 0 when find() returns undefined
FirstIndex(hits) ==
  IF hits = {} THEN 0 ELSE CHOOSE i \in hits : \A j \in hits : i <= j

\* srvApi: one find() over the three identifiers, then phone and amount
FindSrvApi(txs, body) ==
  LET ById(t) == \/ t.mpesa.CheckoutRequestID = body.CheckoutRequestID
                 \/ t.mpesa.remote_transaction_reference = body.transaction_reference
                 \/ t.transaction_reference = body.transaction_reference
      ByPhone(t) == /\ t.mobile_number = body.mpesa.PhoneNumber
                    /\ NumEq(t.amount, body.mpesa.Amount)
      byId == FirstIndex({i \in 1..Len(txs) : ById(txs[i])})
  IN IF byId # 0 THEN byId
     ELSE IF body.mpesa.present /\ Truthy(body.mpesa.PhoneNumber)
     THEN FirstIndex({i \in 1..Len(txs) : ByPhone(txs[i])})
     ELSE 0

\* p0Api: checkout id, then remote reference, then phone, amount and pending
FindP0Api(txs, body) ==
  LET ByCheckout(t) == t.mpesa.CheckoutRequestID = body.CheckoutRequestID
      ByRemote(t) == \/ t.mpesa.remote_transaction_reference = body.transaction_reference
                     \/ t.transaction_reference = body.transaction_reference
      ByPhone(t) == /\ t.mobile_number = body.mpesa.PhoneNumber
                    /\ NumEq(t.amount, body.mpesa.Amount)
                    /\ t.status = "pending"
      first == IF Truthy(body.CheckoutRequestID)
               THEN FirstIndex({i \in 1..Len(txs) : ByCheckout(txs[i])}) ELSE 0
      second == IF first = 0 /\ Truthy(body.transaction_reference)
                THEN FirstIndex({i \in 1..Len(txs) : ByRemote(txs[i])}) ELSE first
  IN IF second = 0 /\ body.mpesa.present /\ Truthy(body.mpesa.PhoneNumber)
                   /\ ~NumFalsy(body.mpesa.Amount)
     THEN FirstIndex({i \in 1..Len(txs) : ByPhone(txs[i])})
     ELSE second

FindTransaction(txs, body) ==
  IF prog = "srvApi" THEN FindSrvApi(txs, body) ELSE FindP0Api(txs, body)

\* the record created when nothing matches
Placeholder(n, body) ==
  LET tx == createTransactionEntry(
              n,
              IF body.mpesa.present THEN Or(body.mpesa.PhoneNumber, "unknown") ELSE "unknown",
              IF body.mpesa.present /\ ~NumFalsy(body.mpesa.Amount) THEN body.mpesa.Amount ELSE "0",
              body.CheckoutRequestID)
  IN IF prog = "srvApi" THEN tx
     ELSE [tx EXCEPT !.logs = <<"Webhook received but no matching local tx; created placeholder">>]

MergeMpesa(cur, m) ==
  [cur EXCEPT !.MpesaReceiptNumber = Or(m.MpesaReceiptNumber, cur.MpesaReceiptNumber),
              !.TransactionCode = Or(m.TransactionCode, cur.TransactionCode),
              !.PaymentName = Or(m.PaymentName, cur.PaymentName)]

\* a mapping that rejects a confirmation of an already confirmed record as a
\* duplicate: the variant C3 is checked against
MapStatusRejectsRepeat(tx, body) ==
  IF Truthy(body.status)
  THEN LET s == Lower(body.status) IN
       IF s \in {"success", "completed", "paid"}
       THEN (IF tx.status = "success" THEN "failed" ELSE "success")
       ELSE IF s \in {"failed", "error"} THEN "failed"
       ELSE s
  ELSE IF prog = "p0Api" /\ body.mpesa.present /\ body.mpesa.Result = "Success" THEN "success"
  ELSE tx.status

MapStatus(tx, body) ==
  IF Truthy(body.status)
  THEN LET s == Lower(body.status) IN
       IF s \in {"success", "completed", "paid"} THEN "success"
       ELSE IF s \in {"failed", "error"} THEN "failed"
       ELSE s
  ELSE IF prog = "p0Api" /\ body.mpesa.present /\ body.mpesa.Result = "Success" THEN "success"
  ELSE tx.status

HasError(m) ==
  m.present /\ (Truthy(m.error_code) \/ Truthy(m.error_message) \/ Truthy(m.ResultDesc))

ErrorFields(cur, m) ==
  [cur EXCEPT !.error_code = Or(m.error_code, NULL),
              !.error_message = Or(mapMpesaError(Or(m.error_code, NULL)),
                                   Or(m.error_message, Or(m.ResultDesc, NULL)))]

\* an update whose error branch stores the error but leaves the status to the
\* payload: the variant C8 is checked against
WebhookUpdateKeepsStatus(tx, body) ==
  LET merged == IF body.mpesa.present THEN MergeMpesa(tx.mpesa, body.mpesa) ELSE tx.mpesa
  IN [tx EXCEPT !.mpesa = IF HasError(body.mpesa) THEN ErrorFields(merged, body.mpesa) ELSE merged,
                !.status = MapStatus(tx, body),
                !.logs = Append(tx.logs, "Webhook processed")]

\* newFields applied by updateTransaction to the resolved record
WebhookUpdate(tx, body) ==
  LET merged == IF body.mpesa.present THEN MergeMpesa(tx.mpesa, body.mpesa) ELSE tx.mpesa
  IN [tx EXCEPT !.mpesa = IF HasError(body.mpesa) THEN ErrorFields(merged, body.mpesa) ELSE merged,
                !.status = IF HasError(body.mpesa) THEN "failed" ELSE MapStatus(tx, body),
                !.logs = Append(tx.logs, "Webhook processed")]

WebhookIds ==
  { <<UNDEF, UNDEF>>, <<"CHK1", UNDEF>>, <<"CHK9", "PN1">>, <<"CHK9", UNDEF>>, <<UNDEF, "PC-1">> }
WebhookStatuses == {UNDEF, "completed", "FAILED", "reversed", "loan_released"}
WebhookMpesa ==
  { NoMpesa,
    [NoMpesa EXCEPT !.present = TRUE, !.PhoneNumber = "254712345678", !.Amount = "100",
                    !.MpesaReceiptNumber = "R123", !.TransactionCode = "TC1",
                    !.PaymentName = "M-Pesa"],
    [NoMpesa EXCEPT !.present = TRUE, !.PhoneNumber = "0712345678", !.Amount = "100"],
    [NoMpesa EXCEPT !.present = TRUE, !.error_code = "INSUFFICIENT_FUNDS"],
    [NoMpesa EXCEPT !.present = TRUE, !.error_code = "TIMEOUT"],
    [NoMpesa EXCEPT !.present = TRUE, !.error_code = "E999"],
    [NoMpesa EXCEPT !.present = TRUE, !.ResultDesc = "Request failed"] }

WebhookBody(ids, status, m) ==
  [CheckoutRequestID |-> ids[1], transaction_reference |-> ids[2], status |-> status, mpesa |-> m]

\* the bodies delivered: every identifier pair with every status and no mpesa
\* object; payment detail with the status absent or completed; an error with
\* the status absent or completed, addressed by checkout id or by reference
WebhookBodies ==
  {WebhookBody(ids, status, NoMpesa) : ids \in WebhookIds, status \in WebhookStatuses}
    \cup {WebhookBody(ids, status, m) :
            ids \in WebhookIds, status \in {UNDEF, "completed"},
            m \in {d \in WebhookMpesa : d.present /\ ~HasError(d)}}
    \cup {WebhookBody(ids, status, m) :
            ids \in {<<"CHK1", UNDEF>>, <<UNDEF, "PC-1">>}, status \in {UNDEF, "completed"},
            m \in {d \in WebhookMpesa : HasError(d)}}

\* the webhooks processed so far: each one leaves one "Webhook processed" entry
RECURSIVE CountNote(_, _)
CountNote(logs, note) ==
  IF logs = <<>> THEN 0
  ELSE (IF Head(logs) = note THEN 1 ELSE 0) + CountNote(Tail(logs), note)

RECURSIVE HooksProcessed(_)
HooksProcessed(txs) ==
  IF txs = <<>> THEN 0
  ELSE CountNote(Head(txs).logs, "Webhook processed") + HooksProcessed(Tail(txs))

\* the index of the record the handler resolves body to, a new one when nothing
\* matches
Resolve(txs, body) ==
  IF FindTransaction(txs, body) # 0 THEN FindTransaction(txs, body) ELSE Len(txs) + 1

Webhook(body) ==
  /\ prog \in ApiPrograms
  /\ LET found == FindTransaction(transactions, body)
         i == Resolve(transactions, body)
         tx == IF found # 0 THEN transactions[found] ELSE Placeholder(i, body)
     IN /\ found = 0 => Len(transactions) < MaxTx
        /\ HooksProcessed(transactions) < MaxHooks
        /\ transactions' = IF found # 0
                           THEN [transactions EXCEPT ![i] = WebhookUpdate(tx, body)]
                           ELSE Append(transactions, WebhookUpdate(tx, body))
        /\ last' = [op |-> "webhook", code |-> 200]
  /\ UNCHANGED <<prog, now, receipts, pollers, gwSeq, calls>>

(***************************************************************************)
(* The read endpoints.  Both stores are plain objects read with            *)
(* store[reference], so the names every object inherits from               *)
(* Object.prototype are found in them as well.                             *)
(***************************************************************************)
InheritedKeys == {"constructor"}

\* store[ref] is truthy
HasEntry(keys, ref) == ref \in keys \/ ref \in InheritedKeys

TxRefs(txs) == {txs[i].transaction_reference : i \in 1..Len(txs)}

\* GET /receipt/:reference and GET /receipt/:reference/pdf
GetReceipt(reference) ==
  /\ prog \in PayPrograms
  /\ last' = [op |-> "getReceipt",
              code |-> IF HasEntry(DOMAIN receipts, reference) THEN 200 ELSE 404]
  /\ UNCHANGED <<prog, now, receipts, pollers, gwSeq, transactions, calls>>

\* GET /api/payment/status?transaction_reference= and GET /api/payment/:ref/receipt
GetStatus(transaction_reference) ==
  /\ prog \in ApiPrograms
  /\ last' = [op |-> "getStatus",
              code |-> IF HasEntry(TxRefs(transactions), transaction_reference)
                       THEN 200 ELSE 404]
  /\ UNCHANGED <<prog, now, receipts, pollers, gwSeq, transactions, calls>>

\* GET /api/transactions
ListTransactions ==
  /\ prog \in ApiPrograms
  /\ last' = [op |-> "list", code |-> 200]
  /\ UNCHANGED <<prog, now, receipts, pollers, gwSeq, transactions, calls>>

ReadRefs == DOMAIN receipts \cup TxRefs(transactions) \cup {"ORDER-X", "constructor"}

(***************************************************************************)
(* The four programs.                                                      *)
(***************************************************************************)
InitFor(program) ==
  /\ prog = program
  /\ now = 0
  /\ receipts = [k \in {} |-> NoReceipt]
  /\ pollers = [p \in {} |-> 0]
  /\ gwSeq = 0
  /\ transactions = <<>>
  /\ calls = {}
  /\ last = [op |-> "start", code |-> 0]

Init == \E program \in Programs : InitFor(program)

Pay ==
  \/ \E amount \in PayAmounts : PayThrows(UNDEF, amount)
  \/ \E phone \in PayPhones, amount \in PayAmounts : PayRejected(phone, amount)
  \/ \E phone \in PayPhones, amount \in PayAmounts : PayAccepted(phone, amount)
  \/ \E phone \in PayPhones, amount \in PayAmounts : PayFailed(phone, amount)

Poll ==
  \/ \E p \in DOMAIN pollers : TickFire(p)
  \/ \E p \in DOMAIN pollers, resp \in PollResponses : TickDone(p, resp)
  \/ \E p \in DOMAIN pollers : TickError(p)

CallbackRequest ==
  \E ref \in CallbackRefs, status \in CallbackStatuses,
     receipt \in {UNDEF, "R123"}, names \in CallbackNames :
    Callback(CallbackPayload(ref, status, receipt, names))

PaynectaRequest ==
  \E headers \in PaynectaHeaders, data \in PaynectaPayloads : PaynectaPost(headers, data)

Initialize ==
  \/ \E phone \in InitPhones, amount \in InitAmounts : InitializeRejected(phone, amount)
  \/ \E phone \in InitPhones, amount \in InitAmounts : InitializeStart(phone, amount)
  \/ \E i \in calls, full \in BOOLEAN : InitializeAccepted(i, full)
  \/ \E i \in calls : InitializeFailed(i)

WebhookRequest == \E body \in WebhookBodies : Webhook(body)

Read ==
  \/ \E reference \in ReadRefs : GetReceipt(reference)
  \/ \E reference \in ReadRefs : GetStatus(reference)
  \/ ListTransactions

NextSrvPay == Pay \/ Poll \/ CallbackRequest \/ Cron \/ AdvanceMs \/ AdvanceDwell
NextP0Pay == Pay \/ PaynectaRequest \/ Cron \/ AdvanceMs \/ AdvanceDwell
NextApi == Initialize \/ WebhookRequest

Next ==
  \/ Pay \/ Poll \/ CallbackRequest \/ PaynectaRequest \/ Cron \/ AdvanceMs \/ AdvanceDwell
  \/ Initialize \/ WebhookRequest \/ Read

\* a run of any of the four programs
Spec == Init /\ [][Next]_vars

\* a run of one program
SpecSrvPay == InitFor("srvPay") /\ [][NextSrvPay]_vars
SpecP0Pay == InitFor("p0Pay") /\ [][NextP0Pay]_vars
SpecSrvApi == InitFor("srvApi") /\ [][NextApi]_vars
SpecP0Api == InitFor("p0Api") /\ [][NextApi]_vars

\* srvPay with the steps its own timers force: the interval of every running
\* poller fires and the sweeper runs.  The gateway's answers to the requests of
\* /pay (axios.post and axios.get without a timeout option) are not forced.
FairSrvPay ==
  /\ SpecSrvPay
  /\ WF_vars(Cron)
  /\ \A p \in 1..MaxPays : WF_vars(TickFire(p))

\* initiations and reads only, of any of the four programs
NextReads == Pay \/ Initialize \/ Read
SpecReads == Init /\ [][NextReads]_vars

\* a run of either /api program
SpecApi == (InitFor("srvApi") \/ InitFor("p0Api")) /\ [][NextApi]_vars

(***************************************************************************)
(* formatPhone on its own: a raw string comes in, formatPhone is applied   *)
(* to it, and then once more to what it returned.                          *)
(***************************************************************************)
PhoneLeads == {"", "+", "0", "07", "7", "254", "2547", "+254", "1", "25407"}
PhoneBodies == {"12345678", "1234567", "123456789", "12 345 678", "1234-5678", ""}
PhoneTails == {"", " ", "x"}
PhoneInputs == {l \o b \o t : l \in PhoneLeads, b \in PhoneBodies, t \in PhoneTails}

InitPhone ==
  /\ prog = "formatPhone"
  /\ now = 0
  /\ receipts = [k \in {} |-> NoReceipt]
  /\ pollers = [p \in {} |-> 0]
  /\ gwSeq = 0
  /\ transactions = <<>>
  /\ calls = {}
  /\ \E phone \in PhoneInputs : last = [op |-> "input", phone |-> phone]

\* formatPhone(phone)
FormatPhone ==
  /\ prog = "formatPhone"
  /\ last.op = "input"
  /\ last' = [op |-> "formatPhone", phone |-> last.phone, result |-> formatPhone(last.phone)]
  /\ UNCHANGED <<prog, now, receipts, pollers, gwSeq, transactions, calls>>

\* formatPhone(formatPhone(phone)), for a phone that was accepted
FormatPhoneAgain ==
  /\ prog = "formatPhone"
  /\ last.op = "formatPhone"
  /\ last.result # NULL
  /\ last' = [op |-> "formatPhoneAgain", phone |-> last.phone, result |-> last.result,
              again |-> formatPhone(last.result)]
  /\ UNCHANGED <<prog, now, receipts, pollers, gwSeq, transactions, calls>>

NextPhone == FormatPhone \/ FormatPhoneAgain
SpecPhone == InitPhone /\ [][NextPhone]_vars

(***************************************************************************)
(* The specification's vocabulary, read off the stored records.            *)
(***************************************************************************)
States == {"initialized", "pending", "processing", "failed", "released"}

\* the state a stored status stands for: the /api programs call a confirmed
\* payment success, the /pay programs call it processing
StateOf(status) ==
  CASE status = "initialized" -> "initialized"
    [] status = "pending" -> "pending"
    [] status \in {"processing", "success"} -> "processing"
    [] status \in {"cancelled", "error", "failed"} -> "failed"
    [] status = "loan_released" -> "released"
    [] OTHER -> "none"

Edges ==
  { <<"initialized", "pending">>, <<"initialized", "failed">>, <<"pending", "processing">>,
    <<"pending", "failed">>, <<"processing", "processing">>, <<"processing", "released">> }

Terminal(status) == StateOf(status) \in {"failed", "released"}

IsNull(v) == v \in {NULL, UNDEF}

\* the gateway detail of a receipt and of a transaction
ReceiptDetail(r) == <<r.transaction_code, r.customer_name>>
TxDetail(tx) ==
  <<tx.mpesa.MpesaReceiptNumber, tx.mpesa.TransactionCode, tx.mpesa.PaymentName,
    tx.mpesa.error_code, tx.mpesa.error_message>>

HookOps == {"webhook", "callback", "poll"}

Moves(from, to) == from = to \/ <<from, to>> \in Edges

(***************************************************************************)
(* C1: after any sequence of initiate, poll-tick, webhook and sweeper      *)
(* operations every record's state is one of the five defined states, and  *)
(* every change of a record's state follows an edge of the state machine.  *)
(***************************************************************************)
C1_StateMachine ==
  [][ /\ \A k \in DOMAIN receipts' :
           /\ StateOf(receipts'[k].status) \in States
           /\ k \in DOMAIN receipts =>
                Moves(StateOf(receipts[k].status), StateOf(receipts'[k].status))
      /\ \A i \in 1..Len(transactions') :
           /\ StateOf(transactions'[i].status) \in States
           /\ i <= Len(transactions) =>
                Moves(StateOf(transactions[i].status), StateOf(transactions'[i].status))
    ]_vars

(***************************************************************************)
(* C2: a webhook or poll tick delivered for a record that is in a terminal *)
(* state leaves its state and its gateway detail unchanged.                *)
(***************************************************************************)
C2_TerminalNoOp ==
  [][ last'.op \in HookOps =>
        /\ \A k \in DOMAIN receipts :
             Terminal(receipts[k].status) =>
               /\ receipts'[k].status = receipts[k].status
               /\ ReceiptDetail(receipts'[k]) = ReceiptDetail(receipts[k])
        /\ \A i \in 1..Len(transactions) :
             Terminal(transactions[i].status) =>
               /\ transactions'[i].status = transactions[i].status
               /\ TxDetail(transactions'[i]) = TxDetail(transactions[i])
    ]_vars

(***************************************************************************)
(* C5: across webhook, poll-tick and sweeper updates no gateway-detail     *)
(* field of a record goes from a non-null value back to null.              *)
(***************************************************************************)
NoRegress(before, after) ==
  \A f \in 1..Len(before) : ~IsNull(before[f]) => ~IsNull(after[f])

C5_MonotonicDetail ==
  [][ last'.op \in HookOps \cup {"cron"} =>
        /\ \A k \in DOMAIN receipts :
             NoRegress(ReceiptDetail(receipts[k]), ReceiptDetail(receipts'[k]))
        /\ \A i \in 1..Len(transactions) :
             NoRegress(TxDetail(transactions[i]), TxDetail(transactions'[i]))
    ]_vars

(***************************************************************************)
(* The payloads the requests above are drawn from.                         *)
(***************************************************************************)
CallbackPayloads ==
  {CallbackPayload(ref, status, receipt, names) :
     ref \in CallbackRefs, status \in CallbackStatuses, receipt \in {UNDEF, "R123"},
     names \in CallbackNames}

ReceiptCore(r) == <<r.status, r.transaction_code, r.customer_name>>
TxCore(tx) == <<tx.status, tx.mpesa>>

\* a webhook of the /api programs that reports a confirmed payment
ConfirmingBody(body) ==
  /\ ~HasError(body.mpesa)
  /\ Truthy(body.status)
  /\ Lower(body.status) \in {"success", "completed", "paid"}

(***************************************************************************)
(* C3: applying the same payment-confirmed event, with the same receipt    *)
(* code, to the same record twice yields the same state and the same       *)
(* gateway detail as applying it once.                                     *)
(***************************************************************************)
C3_ConfirmedTwice ==
  /\ prog = "srvPay" =>
       \A k \in DOMAIN receipts :
         /\ \A resp \in PollResponses :
              PollConfirmed(OptLower(resp.status)) =>
                ReceiptCore(PollUpdate(PollUpdate(receipts[k], resp, now), resp, now + 1))
                  = ReceiptCore(PollUpdate(receipts[k], resp, now))
         /\ \A data \in CallbackPayloads :
              (KeyOf(data.external_reference) = k /\ OptLower(data.status) = "completed") =>
                ReceiptCore(CallbackUpdate(CallbackUpdate(receipts[k], data, now), data, now + 1))
                  = ReceiptCore(CallbackUpdate(receipts[k], data, now))
  /\ prog = "p0Pay" =>
       \A k \in DOMAIN receipts : \A data \in PaynectaPayloads :
         (data.status = "completed" \/ data.success = "true") =>
           ReceiptCore(PaynectaUpdate(PaynectaUpdate(receipts[k], data, now), data, now + 1))
             = ReceiptCore(PaynectaUpdate(receipts[k], data, now))
  /\ prog \in ApiPrograms =>
       \A i \in 1..Len(transactions) : \A body \in WebhookBodies :
         ConfirmingBody(body) =>
           TxCore(WebhookUpdate(WebhookUpdate(transactions[i], body), body))
             = TxCore(WebhookUpdate(transactions[i], body))

\* a record that two webhooks have been applied to, confirmed with receipt
\* R123, on which the confirming webhook has no further effect
C3_Witness ==
  /\ prog \in ApiPrograms
  /\ \E i \in 1..Len(transactions) : \E body \in WebhookBodies :
       /\ ConfirmingBody(body)
       /\ body.mpesa.MpesaReceiptNumber = "R123"
       /\ CountNote(transactions[i].logs, "Webhook processed") = 2
       /\ transactions[i].status = "success"
       /\ transactions[i].mpesa.MpesaReceiptNumber = "R123"
       /\ TxCore(WebhookUpdate(transactions[i], body)) = TxCore(transactions[i])

(***************************************************************************)
(* C4: for a pending record and a gateway status of completed, processing, *)
(* failed or cancelled, webhook-then-poll and poll-then-webhook end in the *)
(* same state.                                                             *)
(***************************************************************************)
C4_OrderIndependent ==
  prog = "srvPay" =>
    \A k \in DOMAIN receipts :
      receipts[k].status = "pending" =>
        \A status \in {"completed", "processing", "failed", "cancelled"},
           receipt \in {UNDEF, "R123"} :
          LET data == CallbackPayload(receipts[k].reference, status, receipt,
                                      [name |-> UNDEF, first_name |-> UNDEF,
                                       middle_name |-> UNDEF, last_name |-> UNDEF])
              resp == [status |-> status, mpesa_receipt_number |-> receipt]
              hookFirst == PollUpdate(CallbackUpdate(receipts[k], data, now), resp, now)
              pollFirst == CallbackUpdate(PollUpdate(receipts[k], resp, now), data, now)
          IN StateOf(hookFirst.status) = StateOf(pollFirst.status)

(***************************************************************************)
(* C6: initiate with phone 0712345678 and amount 100, accepted with        *)
(* checkout id CHK1, leaves the record pending with phone 254712345678;    *)
(* the webhook for CHK1 with status completed and receipt R123 makes it    *)
(* processing with receipt code R123; the sweeper, more than 24 hours      *)
(* later, makes it released.                                               *)
(***************************************************************************)
ScenarioHook ==
  WebhookBody(<<"CHK1", UNDEF>>, "completed",
              [NoMpesa EXCEPT !.present = TRUE, !.PhoneNumber = "254712345678", !.Amount = "100",
                              !.MpesaReceiptNumber = "R123", !.TransactionCode = "TC1",
                              !.PaymentName = "M-Pesa"])

\* the record the gateway accepted with checkout id CHK1
ScenarioTx(tx) ==
  /\ tx.logs # <<>>
  /\ Head(tx.logs) = "Initialized STK Push"
  /\ "CHK1" \in {tx.mpesa.CheckoutRequestID, tx.flat.CheckoutRequestID}

C6_Lifecycle ==
  [][ /\ \A i \in calls :
           (/\ transactions[i].mobile_number = "0712345678"
            /\ transactions[i].amount = "100"
            /\ gwSeq = 0
            /\ InitializeAccepted(i, TRUE)) =>
             /\ StateOf(transactions'[i].status) = "pending"
             /\ transactions'[i].mobile_number = "254712345678"
      /\ (gwSeq = 0 /\ PayAccepted("0712345678", "100")) =>
           /\ StateOf(receipts'[OrderRef(now)].status) = "pending"
           /\ receipts'[OrderRef(now)].phone = "254712345678"
      /\ \A i \in 1..Len(transactions) :
           (/\ ScenarioTx(transactions[i])
            /\ StateOf(transactions[i].status) = "pending"
            /\ Webhook(ScenarioHook)) =>
             /\ StateOf(transactions'[i].status) = "processing"
             /\ transactions'[i].mpesa.MpesaReceiptNumber = "R123"
      /\ \A k \in DOMAIN receipts :
           (/\ receipts[k].transaction_id = "CHK1"
            /\ StateOf(receipts[k].status) = "pending"
            /\ PaynectaWebhook([transaction_reference |-> "CHK1", status |-> "completed",
                                success |-> UNDEF, mpesa_receipt |-> "R123"])) =>
             /\ StateOf(receipts'[k].status) = "processing"
             /\ receipts'[k].transaction_code = "R123"
      /\ \A k \in DOMAIN receipts :
           (/\ StateOf(receipts[k].status) = "processing"
            /\ now > receipts[k].timestamp + DwellMs
            /\ Cron) =>
             StateOf(receipts'[k].status) = "released"
    ]_vars

(***************************************************************************)
(* C7: a webhook that matches no record creates exactly one new            *)
(* placeholder record, in state initialized, whose log notes that it was   *)
(* unmatched; every record that existed before is unchanged.               *)
(***************************************************************************)
UnmatchedNote == "Webhook received but no matching local tx; created placeholder"

C7_Placeholder ==
  [][ \A body \in WebhookBodies :
        (/\ last'.op = "webhook"
         /\ FindTransaction(transactions, body) = 0
         /\ Webhook(body)) =>
          /\ Len(transactions') = Len(transactions) + 1
          /\ StateOf(transactions'[Len(transactions')].status) = "initialized"
          /\ CountNote(transactions'[Len(transactions')].logs, UnmatchedNote) = 1
          /\ \A i \in 1..Len(transactions) : transactions'[i] = transactions[i]
    ]_vars

(***************************************************************************)
(* C8: a webhook whose payload carries a gateway error code, delivered to a *)
(* pending record, moves it to failed whatever the payload's status says,  *)
(* and stores as error message the lookup table's text for that code, or   *)
(* the table's unknown-error text when the code is not in the table.       *)
(***************************************************************************)
Recognized(code) == Truthy(MPESA_ERROR_MAP(prog, code))

TableText(code) ==
  IF Recognized(code) THEN MPESA_ERROR_MAP(prog, code) ELSE MPESA_ERROR_MAP(prog, "UNKNOWN_ERROR")

\* an unrecognized code that names a known cause gets that cause's text
CauseText(code) ==
  LET lower == toLowerCase(code) IN
  IF Recognized(code) THEN MPESA_ERROR_MAP(prog, code)
  ELSE IF includes(lower, "insufficient") THEN MPESA_ERROR_MAP(prog, "INSUFFICIENT_FUNDS")
  ELSE IF includes(lower, "cancel") THEN MPESA_ERROR_MAP(prog, "USER_CANCELLED")
  ELSE IF includes(lower, "timeout") \/ (prog = "p0Api" /\ includes(lower, "timed out"))
       THEN MPESA_ERROR_MAP(prog, "TIMED_OUT")
  ELSE MPESA_ERROR_MAP(prog, "UNKNOWN_ERROR")

ErrorDelivered(body, i) ==
  /\ last'.op = "webhook"
  /\ body.mpesa.present
  /\ Truthy(body.mpesa.error_code)
  /\ i # 0
  /\ transactions[i].status = "pending"
  /\ Webhook(body)

C9_AlwaysAcknowledged == last.op \in {"webhook", "callback"} => last.code = 200

(***************************************************************************)
(* C10: a malformed webhook (no status field, or no usable reference) is   *)
(* acknowledged and changes the state of no record.                        *)
(***************************************************************************)
MalformedCallback(data) == ~Truthy(data.status) \/ ~Truthy(data.external_reference)
MalformedPaynecta(data) == ~Truthy(data.status) \/ ~Truthy(data.transaction_reference)
MalformedBody(body) ==
  \/ ~Truthy(body.status)
  \/ ~Truthy(body.CheckoutRequestID) /\ ~Truthy(body.transaction_reference)

StatesKept ==
  /\ \A k \in DOMAIN receipts :
       k \in DOMAIN receipts' /\ receipts'[k].status = receipts[k].status
  /\ \A i \in 1..Len(transactions) : transactions'[i].status = transactions[i].status

C10_MalformedIgnored ==
  [][ /\ \A data \in CallbackPayloads :
           (last'.op = "callback" /\ MalformedCallback(data) /\ Callback(data)) =>
             (last'.code = 200 /\ StatesKept)
      /\ \A data \in PaynectaPayloads :
           (/\ last'.op = "webhook"
            /\ MalformedPaynecta(data)
            /\ PaynectaUnknown(data) \/ PaynectaWebhook(data)) =>
             (last'.code = 200 /\ StatesKept)
      /\ \A body \in WebhookBodies :
           (last'.op = "webhook" /\ MalformedBody(body) /\ Webhook(body)) =>
             (last'.code = 200 /\ StatesKept)
    ]_vars

(***************************************************************************)
(* C11: an initiate request that fails validation (phone not in an         *)
(* accepted shape, or invalid amount) is rejected to the caller, makes no  *)
(* gateway call and leaves the store unchanged.                            *)
(***************************************************************************)
BadPhone(phone) == phone = UNDEF \/ Formatted(phone) = NULL
BadMsisdn(mobile_number) == ~Truthy(mobile_number) \/ ~MsisdnValid(mobile_number)
BadAmount(amount) == NumFalsy(amount) \/ Number(amount) < One

PayRequest(phone, amount) ==
  \/ PayThrows(phone, amount)
  \/ PayRejected(phone, amount)
  \/ PayAccepted(phone, amount)
  \/ PayFailed(phone, amount)

InitializeRequest(mobile_number, amount) ==
  InitializeRejected(mobile_number, amount) \/ InitializeStart(mobile_number, amount)

RejectedUntouched ==
  /\ last'.code = 400
  /\ UNCHANGED <<receipts, pollers, transactions, calls, gwSeq>>

C11_ValidationRejects ==
  [][ /\ \A phone \in PayPhones \cup {UNDEF}, amount \in PayAmounts :
           ((BadPhone(phone) \/ BadAmount(amount)) /\ PayRequest(phone, amount)) =>
             (last'.op = "pay" /\ RejectedUntouched)
      /\ \A mobile_number \in InitPhones, amount \in InitAmounts :
           ((BadMsisdn(mobile_number) \/ BadAmount(amount))
              /\ InitializeRequest(mobile_number, amount)) =>
             (last'.op = "initialize" /\ RejectedUntouched)
    ]_vars

(***************************************************************************)
(* C12: initiate rejects every amount below 1 (zero, negative, or a        *)
(* fraction below 1) with an invalid-amount error; only amounts of at      *)
(* least 1 reach the gateway or produce a record.                          *)
(***************************************************************************)
C12_AmountAtLeastOne ==
  [][ /\ \A phone \in PayPhones, amount \in PayAmounts :
           (Number(amount) < One /\ PayRequest(phone, amount)) => RejectedUntouched
      /\ \A mobile_number \in InitPhones, amount \in InitAmounts :
           (Number(amount) < One /\ InitializeRequest(mobile_number, amount)) =>
             RejectedUntouched
    ]_vars

(***************************************************************************)
(* C13: when the gateway call of a validated initiate request fails,       *)
(* exactly one record exists for that attempt afterwards, it is in the     *)
(* terminal failed state, and the gateway's error message is stored in the *)
(* record's gateway-detail error field.                                    *)
(***************************************************************************)
C13_GatewayFailureRecorded ==
  [][ /\ \A i \in calls :
           InitializeFailed(i) =>
             /\ Len(transactions') = Len(transactions)
             /\ StateOf(transactions'[i].status) = "failed"
             /\ transactions'[i].mpesa.error_message = "Gateway unavailable"
      /\ \A phone \in PayPhones, amount \in PayAmounts :
           PayFailed(phone, amount) =>
             /\ DOMAIN receipts' = DOMAIN receipts \cup {OrderRef(now)}
             /\ StateOf(receipts'[OrderRef(now)].status) = "failed"
    ]_vars

(***************************************************************************)
(* C14: any two initiate operations produce records with distinct          *)
(* references, and creating a record never overwrites or removes an        *)
(* existing record, two initiations at the same clock value included; the  *)
(* number of stored records never decreases.                               *)
(***************************************************************************)
C14_ReferencesDistinct ==
  [][ /\ \A phone \in PayPhones, amount \in PayAmounts :
           (PayAccepted(phone, amount) \/ PayFailed(phone, amount)) =>
             /\ OrderRef(now) \notin DOMAIN receipts
             /\ \A k \in DOMAIN receipts : k \in DOMAIN receipts' /\ receipts'[k] = receipts[k]
      /\ \A mobile_number \in InitPhones, amount \in InitAmounts :
           InitializeStart(mobile_number, amount) =>
             /\ \A i \in 1..Len(transactions) :
                  /\ transactions'[i] = transactions[i]
                  /\ transactions'[Len(transactions')].transaction_reference
                       # transactions[i].transaction_reference
      /\ Cardinality(DOMAIN receipts') >= Cardinality(DOMAIN receipts)
      /\ Len(transactions') >= Len(transactions)
    ]_vars

(***************************************************************************)
(* C15: a record's state becomes released only through a sweeper run, only *)
(* from state processing, and only when at least the fixed dwell of 24     *)
(* hours has elapsed since the record's confirmation timestamp; no         *)
(* webhook, callback or poll tick puts a record into released.             *)
(***************************************************************************)
Released(status) == StateOf(status) = "released"

C15_ReleaseOnlyBySweeper ==
  [][ /\ \A k \in DOMAIN receipts' :
           (Released(receipts'[k].status)
              /\ (k \in DOMAIN receipts => ~Released(receipts[k].status))) =>
             /\ Cron
             /\ k \in DOMAIN receipts
             /\ StateOf(receipts[k].status) = "processing"
             /\ now - receipts[k].timestamp >= DwellMs
      /\ \A i \in 1..Len(transactions') :
           (Released(transactions'[i].status)
              /\ (i <= Len(transactions) => ~Released(transactions[i].status))) =>
             Cron
    ]_vars

(***************************************************************************)
(* C16: getReceipt and getStatus for a reference that is not in the store  *)
(* return a not-found error, and every getReceipt, getStatus and list call *)
(* leaves the store unchanged.                                             *)
(***************************************************************************)
C16_ReadsAreReads ==
  [][ /\ \A reference \in ReadRefs :
           GetReceipt(reference) =>
             /\ reference \notin DOMAIN receipts => last'.code = 404
             /\ UNCHANGED <<receipts, pollers, gwSeq>>
      /\ \A reference \in ReadRefs :
           GetStatus(reference) =>
             /\ reference \notin TxRefs(transactions) => last'.code = 404
             /\ UNCHANGED <<transactions, calls, gwSeq>>
      /\ ListTransactions => UNCHANGED <<transactions, calls, gwSeq>>
    ]_vars

(***************************************************************************)
(* C17: webhook matching follows strict priority: a record that matches    *)
(* the payload's checkout id is chosen if there is one; a reference match  *)
(* is used only when no record matches on checkout id; the phone and       *)
(* amount heuristic only when neither identifier matches, whatever the     *)
(* order in which the records were created.                                *)
(***************************************************************************)
CheckoutMatches(txs, body) ==
  IF Truthy(body.CheckoutRequestID)
  THEN {i \in 1..Len(txs) : txs[i].mpesa.CheckoutRequestID = body.CheckoutRequestID}
  ELSE {}

ReferenceMatches(txs, body) ==
  IF Truthy(body.transaction_reference)
  THEN {i \in 1..Len(txs) :
          \/ txs[i].mpesa.remote_transaction_reference = body.transaction_reference
          \/ txs[i].transaction_reference = body.transaction_reference}
  ELSE {}

C17_MatchPriority ==
  prog \in ApiPrograms =>
    \A body \in WebhookBodies :
      LET chosen == FindTransaction(transactions, body)
          byCheckout == CheckoutMatches(transactions, body)
          byReference == ReferenceMatches(transactions, body)
      IN /\ byCheckout # {} => chosen \in byCheckout
         /\ (byCheckout = {} /\ byReference # {}) => chosen \in byReference

(***************************************************************************)
(* C18: the phone and amount fallback of the webhook never resolves to a   *)
(* record in a terminal state; a webhook that matches only a terminal      *)
(* record by phone and amount is treated as unmatched.                     *)
(***************************************************************************)
\* the record and the body agree on one of the identifiers the handler compares
IdEqual(tx, body) ==
  \/ tx.mpesa.CheckoutRequestID = body.CheckoutRequestID
  \/ tx.mpesa.remote_transaction_reference = body.transaction_reference
  \/ tx.transaction_reference = body.transaction_reference

PolledRecordDone(p) ==
  \/ pollers[p].reference \notin DOMAIN receipts
  \/ Terminal(receipts[pollers[p].reference].status)

PendingTick(p, resp) ==
  /\ last'.op = "poll"
  /\ pollers[p].reference \in DOMAIN receipts
  /\ receipts[pollers[p].reference].status = "pending"
  /\ TickDone(p, resp)

\* what the claim asks of the tick when the gateway's status reads as payStatus
TickMapping(p, payStatus) ==
  LET ref == pollers[p].reference IN
  CASE payStatus \in {"completed", "processing"} ->
         StateOf(receipts'[ref].status) = "processing"
    [] payStatus \in {"failed", "cancelled"} ->
         StateOf(receipts'[ref].status) = "failed"
    [] OTHER ->
         receipts'[ref] = receipts[ref] /\ pollers'[p].active = pollers[p].active

\* the status compared as the gateway spelled it
C20_Original ==
  [][\A p \in DOMAIN pollers : \A resp \in PollResponses :
       PendingTick(p, resp) => TickMapping(p, resp.status)]_vars

\* the status compared without regard to letter case
C20_Amended ==
  [][\A p \in DOMAIN pollers : \A resp \in PollResponses :
       PendingTick(p, resp) => TickMapping(p, OptLower(resp.status))]_vars

\* a tick has confirmed a payment: record processing with the gateway's receipt
\* number, its timer cancelled
C20_Witness ==
  /\ last.op = "poll"
  /\ \E p \in DOMAIN pollers :
       /\ ~pollers[p].active
       /\ pollers[p].reference \in DOMAIN receipts
       /\ receipts[pollers[p].reference].status = "processing"
       /\ receipts[pollers[p].reference].transaction_code = "R123"

(***************************************************************************)
(* C21: a poll tick whose status request fails changes no record and does  *)
(* not cancel the timer, so the poller asks again on its next tick.        *)
(***************************************************************************)
C21_PollErrorRetries ==
  [][\A p \in DOMAIN pollers :
       (last'.op = "pollError" /\ TickError(p))
         => /\ receipts' = receipts
            /\ transactions' = transactions
            /\ pollers'[p].active = pollers[p].active
            /\ pollers'[p].reference = pollers[p].reference]_vars

\* a status request has failed and the timer of the still pending record runs on
C21_Witness ==
  /\ last.op = "pollError"
  /\ \E p \in DOMAIN pollers :
       /\ pollers[p].active
       /\ pollers[p].inflight = 0
       /\ pollers[p].reference \in DOMAIN receipts
       /\ receipts[pollers[p].reference].status = "pending"

(***************************************************************************)
(* C22: a record that has entered processing is released by the first      *)
(* sweep at or after the dwell time since it was first confirmed: a sweep  *)
(* releases every processing record whose dwell time is over, and no step  *)
(* that leaves a record processing (a repeated confirmation by callback,   *)
(* webhook or poll) moves the time its dwell is counted from.              *)
(***************************************************************************)
C22_ReleaseNotPostponed ==
  [][/\ \A ref \in DOMAIN receipts :
          (receipts[ref].status = "processing" /\ receipts'[ref].status = "processing")
            => receipts'[ref].timestamp = receipts[ref].timestamp
     /\ Cron =>
          \A ref \in DOMAIN receipts :
            (receipts[ref].status = "processing" /\ now >= receipts[ref].timestamp + DwellMs)
              => receipts'[ref].status = "loan_released"]_vars

(***************************************************************************)
(* C23: formatPhone accepts exactly three shapes: 9 digits starting with 7 *)
(* give "254" and the digits, 10 digits starting with 07 give "254" and    *)
(* the digits after the 0, 12 digits starting with 254 come back           *)
(* unchanged; any other digit count or prefix gives null.                  *)
(***************************************************************************)
\* what the three shapes give for a string d
ShapeResult(d) ==
  IF ~AllDigits(d) THEN NULL
  ELSE IF Len(d) = 9 /\ SubSeq(d, 1, 1) = "7" THEN "254" \o d
  ELSE IF Len(d) = 10 /\ SubSeq(d, 1, 2) = "07" THEN "254" \o SubSeq(d, 2, 10)
  ELSE IF Len(d) = 12 /\ SubSeq(d, 1, 3) = "254" THEN d
  ELSE NULL

\* the digits among the first n characters of x, in their order
RECURSIVE DigitsOf(_, _)
DigitsOf(x, n) ==
  IF n = 0 THEN ""
  ELSE DigitsOf(x, n - 1) \o (IF IndexIn(Digits, CharAt(x, n)) > 0 THEN CharAt(x, n) ELSE "")

\* the shapes are shapes of the raw string
C23_Original ==
  last.op = "formatPhone" => last.result = ShapeResult(last.phone)

\* the shapes are shapes of the digits left when every other character is dropped
C23_Amended ==
  last.op = "formatPhone" => last.result = ShapeResult(DigitsOf(last.phone, Len(last.phone)))

\* a twelve digit number written with a leading + has been accepted
C23_Witness ==
  /\ last.op = "formatPhone"
  /\ last.phone = "+254123456789"
  /\ last.result = "254123456789"

(***************************************************************************)
(* C24: for every input formatPhone accepts, its result is accepted too    *)
(* and formatPhone gives that result back unchanged.                       *)
(***************************************************************************)
C24_Idempotent ==
  last.op = "formatPhoneAgain" => (last.again # NULL /\ last.again = last.result)

\* a national number has been normalised twice
C24_Witness ==
  /\ last.op = "formatPhoneAgain"
  /\ last.phone = "0712345678"
  /\ last.result = "254712345678"
  /\ last.again = "254712345678"

(***************************************************************************)
(* C25: every record an initiation creates (and with it the request that   *)
(* goes to the gateway, which carries the same number) holds the phone in  *)
(* the canonical format, 12 digits starting with 254, whichever accepted   *)
(* shape the caller supplied.                                              *)
(***************************************************************************)
Canonical(phone) == Len(phone) = 12 /\ AllDigits(phone) /\ SubSeq(phone, 1, 3) = "254"

C25_CanonicalPhone ==
  [][\A mobile_number \in InitPhones, amount \in InitAmounts :
       InitializeStart(mobile_number, amount)
         => Canonical(transactions'[Len(transactions')].mobile_number)]_vars

(***************************************************************************)
(* C26: after a successful initiate the record is pending and its gateway  *)
(* detail holds the checkout id and the remote reference the gateway       *)
(* returned, so that a later webhook carrying that checkout id resolves to *)
(* this record and not to a placeholder.                                   *)
(***************************************************************************)
C26_InitiateCorrelates ==
  [][\A i \in calls :
       ( /\ last'.op = "initialize"
         /\ \A j \in 1..Len(transactions) :
              j # i => transactions[j].mpesa.CheckoutRequestID # GatewayRef(gwSeq + 1)
         /\ InitializeAccepted(i, TRUE) )
         => /\ transactions'[i].status = "pending"
            /\ transactions'[i].mpesa.CheckoutRequestID = GatewayRef(gwSeq + 1)
            /\ transactions'[i].mpesa.remote_transaction_reference = RemoteRef(gwSeq + 1)
            /\ FindTransaction(transactions',
                 WebhookBody(<<GatewayRef(gwSeq + 1), UNDEF>>, "completed", NoMpesa)) = i]_vars

(***************************************************************************)
(* C27: every mutation of a record (initiation result, webhook, callback,  *)
(* poll tick, sweeper release) appends exactly one entry to the record's   *)
(* log, and the entries already in the log stay as they are, in their      *)
(* order.  A record a webhook creates starts with the one entry of that    *)
(* webhook.                                                                *)
(***************************************************************************)
\* the log of a record; the receipts of the /pay programs keep none
LogOf(r) == IF "logs" \in DOMAIN r THEN r.logs ELSE <<>>

AppendedOne(before, after) ==
  Len(after) = Len(before) + 1 /\ SubSeq(after, 1, Len(before)) = before

C27_AppendOnlyLog ==
  [][/\ \A i \in 1..Len(transactions) :
          transactions'[i] # transactions[i]
            => AppendedOne(LogOf(transactions[i]), LogOf(transactions'[i]))
     /\ WebhookRequest =>
          \A i \in (Len(transactions) + 1)..Len(transactions') :
            Len(LogOf(transactions'[i])) = 1
     /\ last'.op \in {"poll", "callback", "webhook", "cron"} =>
          \A k \in DOMAIN receipts :
            receipts'[k] # receipts[k]
              => AppendedOne(LogOf(receipts[k]), LogOf(receipts'[k]))]_vars

(***************************************************************************)
(* C28: updates to one reference serialize.  When a webhook has been       *)
(* applied to a record whose initiate call is still in flight, the write   *)
(* the initiate handler makes once the gateway has answered observes the   *)
(* webhook's result: a record the webhook confirmed or failed is not moved *)
(* back to pending, and the detail the webhook wrote is kept.              *)
(***************************************************************************)
\* the detail fields a webhook writes
PaymentDetail(tx) ==
  <<tx.mpesa.MpesaReceiptNumber, tx.mpesa.TransactionCode, tx.mpesa.PaymentName,
    tx.mpesa.error_code>>

\* the initiate handler of call i resumes after its await
InitializeResumes(i) ==
  InitializeAccepted(i, TRUE) \/ InitializeAccepted(i, FALSE) \/ InitializeFailed(i)

C28_InitiateObservesWebhook ==
  [][\A i \in calls :
       ( /\ last'.op = "initialize"
         /\ StateOf(transactions[i].status) \in {"processing", "failed", "released"}
         /\ InitializeResumes(i) )
         => /\ StateOf(transactions'[i].status) = StateOf(transactions[i].status)
            /\ PaymentDetail(transactions'[i]) = PaymentDetail(transactions[i])]_vars

(***************************************************************************)
(* C29: every call to the gateway comes to an end even when the gateway    *)
(* never answers: a status query of a poll tick (like the initiate request *)
(* before it) that gets no reply ends as a gateway error, so no request    *)
(* stays in flight for ever.                                               *)
(***************************************************************************)
C29_QueriesComplete ==
  \A p \in 1..MaxPays :
    (p \in DOMAIN pollers /\ pollers[p].inflight > 0)
      ~> (p \in DOMAIN pollers /\ pollers[p].inflight = 0)

(***************************************************************************)
(* C30: the reference, the phone and the amount of a record never change   *)
(* once the record exists, whatever webhooks, callbacks, poll ticks and    *)
(* sweeps (and, for the /api records, initiate results) are applied to it. *)
(***************************************************************************)
ReceiptIdentity(r) == <<r.reference, r.phone, r.amount>>
TxIdentity(tx) == <<tx.transaction_reference, tx.mobile_number, tx.amount>>

C30_IdentityImmutable ==
  [][/\ last'.op # "pay" =>
          \A k \in DOMAIN receipts :
            k \in DOMAIN receipts' /\ ReceiptIdentity(receipts'[k]) = ReceiptIdentity(receipts[k])
     /\ \A i \in 1..Len(transactions) :
          i <= Len(transactions') /\ TxIdentity(transactions'[i]) = TxIdentity(transactions[i])]_vars

(***************************************************************************)
(* C31: a webhook that carries neither a checkout id nor a remote          *)
(* reference is never matched to a record on those keys: an identifier     *)
(* absent from the payload does not equal an identifier unset on a record, *)
(* so such a webhook resolves to a record only by phone and amount, or to  *)
(* no record at all (a placeholder is created).                            *)
(***************************************************************************)
PhoneAmountMatch(tx, body) ==
  /\ body.mpesa.present
  /\ Truthy(body.mpesa.PhoneNumber)
  /\ tx.mobile_number = body.mpesa.PhoneNumber
  /\ NumEq(tx.amount, body.mpesa.Amount)

C31_AbsentIdNeverMatches ==
  prog \in ApiPrograms =>
    \A body \in WebhookBodies :
      (~Truthy(body.CheckoutRequestID) /\ ~Truthy(body.transaction_reference))
        => LET chosen == FindTransaction(transactions, body) IN
           chosen = 0 \/ PhoneAmountMatch(transactions[chosen], body)

(***************************************************************************)
(* C32: once a tick has applied a confirming or failing status and         *)
(* cancelled the timer, another tick of the same poller that was already   *)
(* in flight changes no record when its status request is answered.        *)
(***************************************************************************)
C32_StaleTickIgnored ==
  [][\A p \in DOMAIN pollers : \A resp \in PollResponses :
       (last'.op = "poll" /\ ~pollers[p].active /\ TickDone(p, resp))
         => receipts' = receipts]_vars

(***************************************************************************)
(* C33: in every reachable store, each record sits under a key equal to    *)
(* its own reference field, and that reference is a defined, non-empty     *)
(* identifier; this includes the records /callback writes for an unknown   *)
(* or missing external reference.                                          *)
(***************************************************************************)
C33_KeyedByReference ==
  /\ \A k \in DOMAIN receipts :
       Truthy(receipts[k].reference) /\ receipts[k].reference = k
  /\ \A i \in 1..Len(transactions) :
       /\ Truthy(transactions[i].transaction_reference)
       /\ \A j \in 1..Len(transactions) :
            transactions[j].transaction_reference = transactions[i].transaction_reference => j = i

(***************************************************************************)
(* C34: a request to /paynecta/webhook whose x-api-key or x-user-email     *)
(* header differs from the configured credentials is answered 401 and      *)
(* leaves the whole receipt store unchanged; only a request with both      *)
(* headers matching changes a record.                                      *)
(***************************************************************************)
Mismatch(headers) ==
  headers.signature # PAYNECTA_API_KEY \/ headers.email # PAYNECTA_EMAIL

C34_UnauthorizedRejected ==
  [][\A headers \in PaynectaHeaders :
       (\E data \in PaynectaPayloads : PaynectaPost(headers, data))
         => /\ Mismatch(headers) =>
                 (last' = [op |-> "unauthorized", code |-> 401] /\ receipts' = receipts)
            /\ receipts' # receipts =>
                 (headers.signature = PAYNECTA_API_KEY /\ headers.email = PAYNECTA_EMAIL)]_vars

\* a request has been turned away while a pending receipt was there to be changed
C34_Witness ==
  /\ last = [op |-> "unauthorized", code |-> 401]
  /\ \E k \in DOMAIN receipts :
       receipts[k].status = "pending" /\ receipts[k].transaction_id = "CHK1"

=============================================================================
